---- MODULE Spec2Model ----
(***************************************************************************)
(* Model of reinforcement_learning/gail/gail_training_example.py.          *)
(*                                                                         *)
(* Two specifications are given.                                           *)
(*   Spec      : one call of train(): the script's statements in program   *)
(*               order, followed by the iterations of gail.train with the  *)
(*               three hooks the script registered.                        *)
(*   SpecBuild : train() up to the construction of GAIL, then the builders *)
(*               and networks of the file as pure functions, applied to    *)
(*               inputs drawn from bounded sets.                           *)
(*                                                                         *)
(* Objects are records carrying an identity (id), allocated from next_id;  *)
(* id 0 is Python's None.  The nnabla_rl calls the script makes are        *)
(* modelled by what the script passes to them; a hook constructed with     *)
(* timing=t runs at the iterations that are multiples of t.                *)
(***************************************************************************)
EXTENDS Integers, Sequences, FiniteSets, TLC

VARIABLES
    pc,                 \* position of train(): the statement to execute next
    next_id,            \* next object identity to allocate
    log,                \* stages of train() executed so far, in order
    train_env,          \* local train_env
    eval_env,           \* local eval_env
    expert_buffer,      \* local expert_buffer (id of the unpickled object, 0 = unbound)
    evaluation_hook,    \* local evaluation_hook
    iteration_num_hook, \* local iteration_num_hook
    save_snapshot_hook, \* local save_snapshot_hook
    config,             \* local config (GAILConfig)
    gail,               \* local gail (GAIL), with the hooks set on it
    train_call,         \* arguments of the gail.train call
    iteration_num,      \* gail.iteration_num
    stepped_env,        \* id of the environment the last iteration interacted with
    ran,                \* hooks that ran at the end of the last iteration
    evaluations,        \* evaluation runs so far: records [iteration, env]
    snapshots,          \* snapshots written so far: records [iteration, outdir]
    env_info,           \* SpecBuild: env_info handed to the builders
    algorithm_config,   \* SpecBuild: algorithm_config handed to the builders
    is_mujoco,          \* local is_mujoco (FALSE in train(); either value in SpecBuild)
    batch,              \* SpecBuild: batch size of the inputs fed to the networks
    models,             \* SpecBuild: models built, by network
    outputs,            \* SpecBuild: result of the forward pass, by network
    solvers             \* SpecBuild: solvers built so far, in order

vars == <<pc, next_id, log, train_env, eval_env, expert_buffer, evaluation_hook,
          iteration_num_hook, save_snapshot_hook, config, gail, train_call,
          iteration_num, stepped_env, ran, evaluations, snapshots,
          env_info, algorithm_config, is_mujoco, batch, models,
          outputs, solvers>>

scriptVars == <<log, train_env, eval_env, expert_buffer, evaluation_hook,
                iteration_num_hook, save_snapshot_hook, config, gail, train_call,
                iteration_num, stepped_env, ran, evaluations, snapshots>>

buildVars == <<env_info, algorithm_config, is_mujoco, batch, models,
               outputs, solvers>>

\* ------------------------------------------------------------------ bounds

\* Iterations of gail.train that are explored.
MaxIterations == 20000

\* ------------------------------------------------- constants of train()

env_name == "Pendulum-v1"
evaluation_timing == 10000
total_iterations == 1000000
pi_batch_size == 10000
discriminator_batch_size == 10000
num_steps_per_iteration == 10000
iteration_num_timing == 100
run_per_evaluation == 5
gpu_id == 0

\* f"{env_name}_results"
outdir == <<env_name, "_results">>

Min(a, b) == IF a < b THEN a ELSE b

\* ------------------------------------------------------------ environments

NoEnv == [id |-> 0, name |-> "", wrappers |-> <<>>]

\* Faulty variant of build_classic_control_env: the render flag is ignored and the
\* environment is always wrapped in ScreenRenderEnv.
build_classic_control_env_AlwaysRender(name, render) ==
    [name |-> name, wrappers |-> <<"NumpyFloat32Env", "ScreenRenderEnv">>]

\* build_classic_control_env(env_name, render): the wrappers applied to
\* gym.make(env_name), innermost first.
build_classic_control_env(name, render) ==
    LET env1 == <<"NumpyFloat32Env">>
        env2 == IF render THEN Append(env1, "ScreenRenderEnv") ELSE env1
    IN  [name |-> name, wrappers |-> env2]

\* The object a call of build_classic_control_env returns.
NewEnv(id, name, render) ==
    LET e == build_classic_control_env(name, render)
    IN  [id |-> id, name |-> e.name, wrappers |-> e.wrappers]

\* ------------------------------------------------------------------ hooks

NoHook == [id |-> 0, kind |-> "", timing |-> 1, env |-> 0, outdir |-> <<>>]

NoConfig == [id |-> 0]

NoGail == [id |-> 0, env |-> 0, expert_buffer |-> 0, config |-> 0,
           builders |-> {}, hooks |-> <<>>]

NoCall == [env |-> 0, total_iterations |-> 0]

\* A hook is called after every iteration and does its job when the
\* iteration number is a multiple of its timing.
HookRuns(h, n) == n % h.timing = 0

\* ------------------------------------------------------------------ train()

\* line 226
BuildTrainEnv ==
    /\ pc = "build_train_env"
    /\ train_env' = NewEnv(next_id, env_name, FALSE)
    /\ next_id' = next_id + 1
    /\ log' = Append(log, "build_train_env")
    /\ pc' = "load_expert"
    /\ UNCHANGED <<eval_env, expert_buffer, evaluation_hook, iteration_num_hook,
                   save_snapshot_hook, config, gail, train_call, iteration_num,
                   stepped_env, ran, evaluations, snapshots>>
    /\ UNCHANGED buildVars

\* lines 228-229
LoadExpert ==
    /\ pc = "load_expert"
    /\ expert_buffer' = next_id
    /\ next_id' = next_id + 1
    /\ log' = Append(log, "load_expert")
    /\ pc' = "build_eval_env"
    /\ UNCHANGED <<train_env, eval_env, evaluation_hook, iteration_num_hook,
                   save_snapshot_hook, config, gail, train_call, iteration_num,
                   stepped_env, ran, evaluations, snapshots>>
    /\ UNCHANGED buildVars

\* line 233
BuildEvalEnv ==
    /\ pc = "build_eval_env"
    /\ eval_env' = NewEnv(next_id, env_name, TRUE)
    /\ next_id' = next_id + 1
    /\ log' = Append(log, "build_eval_env")
    /\ pc' = "evaluation_hook"
    /\ UNCHANGED <<train_env, expert_buffer, evaluation_hook, iteration_num_hook,
                   save_snapshot_hook, config, gail, train_call, iteration_num,
                   stepped_env, ran, evaluations, snapshots>>
    /\ UNCHANGED buildVars

\* lines 264-268
MakeEvaluationHook ==
    /\ pc = "evaluation_hook"
    /\ evaluation_hook' = [id |-> next_id, kind |-> "evaluation",
                           timing |-> evaluation_timing, env |-> eval_env.id,
                           run_per_evaluation |-> run_per_evaluation,
                           outdir |-> outdir]
    /\ next_id' = next_id + 1
    /\ log' = Append(log, "evaluation_hook")
    /\ pc' = "iteration_num_hook"
    /\ UNCHANGED <<train_env, eval_env, expert_buffer, iteration_num_hook,
                   save_snapshot_hook, config, gail, train_call, iteration_num,
                   stepped_env, ran, evaluations, snapshots>>
    /\ UNCHANGED buildVars

\* line 273
MakeIterationNumHook ==
    /\ pc = "iteration_num_hook"
    /\ iteration_num_hook' = [id |-> next_id, kind |-> "iteration_num",
                              timing |-> iteration_num_timing, env |-> 0,
                              outdir |-> <<>>]
    /\ next_id' = next_id + 1
    /\ log' = Append(log, "iteration_num_hook")
    /\ pc' = "save_snapshot_hook"
    /\ UNCHANGED <<train_env, eval_env, expert_buffer, evaluation_hook,
                   save_snapshot_hook, config, gail, train_call, iteration_num,
                   stepped_env, ran, evaluations, snapshots>>
    /\ UNCHANGED buildVars

\* line 276
MakeSaveSnapshotHook ==
    /\ pc = "save_snapshot_hook"
    /\ save_snapshot_hook' = [id |-> next_id, kind |-> "save_snapshot",
                              timing |-> evaluation_timing, env |-> 0,
                              outdir |-> outdir]
    /\ next_id' = next_id + 1
    /\ log' = Append(log, "save_snapshot_hook")
    /\ pc' = "config"
    /\ UNCHANGED <<train_env, eval_env, expert_buffer, evaluation_hook,
                   iteration_num_hook, config, gail, train_call, iteration_num,
                   stepped_env, ran, evaluations, snapshots>>
    /\ UNCHANGED buildVars

\* lines 279-285
MakeConfig ==
    /\ pc = "config"
    /\ config' = [id |-> next_id, gpu_id |-> gpu_id,
                  pi_batch_size |-> pi_batch_size,
                  num_steps_per_iteration |-> num_steps_per_iteration,
                  discriminator_batch_size |-> discriminator_batch_size]
    /\ next_id' = next_id + 1
    /\ log' = Append(log, "config")
    /\ pc' = "gail"
    /\ UNCHANGED <<train_env, eval_env, expert_buffer, evaluation_hook,
                   iteration_num_hook, save_snapshot_hook, gail, train_call,
                   iteration_num, stepped_env, ran, evaluations, snapshots>>
    /\ UNCHANGED buildVars

\* The keyword arguments of GAIL(...) that are builders (lines 290-295):
\* the argument's name, the class constructed for it, whether that class is
\* a ModelBuilder or a SolverBuilder, the network it is for, and the
\* is_mujoco it was constructed with (solver builders take none).
GailBuilders(mujoco) ==
    { [arg |-> "policy_builder", class |-> "ExamplePolicyBuilder",
       kind |-> "ModelBuilder", network |-> "policy", is_mujoco |-> mujoco],
      [arg |-> "v_function_builder", class |-> "ExampleVFunctionBuilder",
       kind |-> "ModelBuilder", network |-> "v_function", is_mujoco |-> mujoco],
      [arg |-> "v_solver_builder", class |-> "ExampleVSolverBuilder",
       kind |-> "SolverBuilder", network |-> "v_function", is_mujoco |-> FALSE],
      [arg |-> "reward_function_builder", class |-> "ExampleRewardFunctionBuilder",
       kind |-> "ModelBuilder", network |-> "reward_function",
       is_mujoco |-> mujoco],
      [arg |-> "reward_solver_builder",
       class |-> "ExampleRewardFunctionSolverBuilder",
       kind |-> "SolverBuilder", network |-> "reward_function",
       is_mujoco |-> FALSE] }

\* lines 286-296
MakeGail ==
    /\ pc = "gail"
    /\ gail' = [id |-> next_id, env |-> train_env.id,
                expert_buffer |-> expert_buffer, config |-> config.id,
                builders |-> GailBuilders(is_mujoco), hooks |-> <<>>]
    /\ next_id' = next_id + 1
    /\ log' = Append(log, "gail")
    /\ pc' = "set_hooks"
    /\ UNCHANGED <<train_env, eval_env, expert_buffer, evaluation_hook,
                   iteration_num_hook, save_snapshot_hook, config, train_call,
                   iteration_num, stepped_env, ran, evaluations, snapshots>>
    /\ UNCHANGED buildVars

\* Faulty variant of SetHooks: the script goes on to gail.train without having
\* called gail.set_hooks.
SetHooks_NotCalled ==
    /\ pc = "set_hooks"
    /\ pc' = "train"
    /\ UNCHANGED <<next_id, log, train_env, eval_env, expert_buffer,
                   evaluation_hook, iteration_num_hook, save_snapshot_hook,
                   config, gail, train_call, iteration_num, stepped_env, ran,
                   evaluations, snapshots>>
    /\ UNCHANGED buildVars

\* lines 298-299
SetHooks ==
    /\ pc = "set_hooks"
    /\ gail' = [gail EXCEPT !.hooks =
                    <<evaluation_hook, iteration_num_hook, save_snapshot_hook>>]
    /\ log' = Append(log, "set_hooks")
    /\ pc' = "train"
    /\ UNCHANGED <<next_id, train_env, eval_env, expert_buffer, evaluation_hook,
                   iteration_num_hook, save_snapshot_hook, config, train_call,
                   iteration_num, stepped_env, ran, evaluations, snapshots>>
    /\ UNCHANGED buildVars

\* line 300: the call of gail.train
CallTrain ==
    /\ pc = "train"
    /\ train_call' = [env |-> train_env.id, total_iterations |-> total_iterations]
    /\ log' = Append(log, "train")
    /\ pc' = "training"
    /\ UNCHANGED <<next_id, train_env, eval_env, expert_buffer, evaluation_hook,
                   iteration_num_hook, save_snapshot_hook, config, gail,
                   iteration_num, stepped_env, ran, evaluations, snapshots>>
    /\ UNCHANGED buildVars

\* The hooks of hs that run at iteration n.
HooksRunning(hs, n) == { i \in 1..Len(hs) : HookRuns(hs[i], n) }

\* line 300: one iteration of gail.train: the algorithm interacts with the
\* environment it was given, the iteration number advances and every hook
\* set on the algorithm is called.
Iterate ==
    /\ pc = "training"
    /\ iteration_num < Min(train_call.total_iterations, MaxIterations)
    /\ LET n == iteration_num + 1
           running == HooksRunning(gail.hooks, n)
       IN  /\ iteration_num' = n
           /\ stepped_env' = train_call.env
           /\ ran' = { gail.hooks[i].kind : i \in running }
           /\ evaluations' = evaluations \cup
                { [iteration |-> n, env |-> gail.hooks[i].env] :
                    i \in { j \in running : gail.hooks[j].kind = "evaluation" } }
           /\ snapshots' = snapshots \cup
                { [iteration |-> n, outdir |-> gail.hooks[i].outdir] :
                    i \in { j \in running : gail.hooks[j].kind = "save_snapshot" } }
           /\ pc' = IF n = train_call.total_iterations THEN "done" ELSE "training"
    /\ UNCHANGED <<next_id, log, train_env, eval_env, expert_buffer,
                   evaluation_hook, iteration_num_hook, save_snapshot_hook,
                   config, gail, train_call>>
    /\ UNCHANGED buildVars

ScriptInit ==
    /\ log = <<>>
    /\ train_env = NoEnv
    /\ eval_env = NoEnv
    /\ expert_buffer = 0
    /\ evaluation_hook = NoHook
    /\ iteration_num_hook = NoHook
    /\ save_snapshot_hook = NoHook
    /\ config = NoConfig
    /\ gail = NoGail
    /\ train_call = NoCall
    /\ iteration_num = 0
    /\ stepped_env = 0
    /\ ran = {}
    /\ evaluations = {}
    /\ snapshots = {}


\* ------------------------------------------------- bounds of SpecBuild

\* state_dim and action_dim of env_info range over 1..MaxDim.
MaxDim == 2

\* Batch sizes of the network inputs range over 1..MaxBatch.
MaxBatch == 2

\* Learning rates of the config range over 1..MaxLearningRate (in units of
\* the smallest rate considered).
MaxLearningRate == 2

\* Solvers built in one behaviour.
MaxSolvers == 2

\* ------------------------------------------------------ nnabla variables

\* An nn.Variable: its shape and the layers that computed it, in order.
NoVariable == [shape |-> <<>>, graph |-> <<>>]

\* A network input of shape (b, d).
Input(b, d) == [shape |-> <<b, d>>, graph |-> <<>>]

\* PF.affine(x, n_outmaps=n) under parameter scope / name `scope`.
PF_affine(x, n, scope) ==
    [shape |-> <<x.shape[1], n>>,
     graph |-> Append(x.graph, [op |-> "affine", n_outmaps |-> n,
                                scope |-> scope, n_inmaps |-> x.shape[2]])]

F_relu(x) == [shape |-> x.shape, graph |-> Append(x.graph, [op |-> "relu"])]

F_tanh(x) == [shape |-> x.shape, graph |-> Append(x.graph, [op |-> "tanh"])]

\* F.concatenate(x, y, axis=1)
F_concatenate(x, y) ==
    [shape |-> <<x.shape[1], x.shape[2] + y.shape[2]>>,
     graph |-> <<[op |-> "concatenate"]>>]

\* F.reshape(x, shape=(-1, 2, d)) followed by F.split(axis=1): each of the
\* two outputs has shape (x.size / (2 * d), d).
F_reshape_split(x, d) ==
    [shape |-> <<(x.shape[1] * x.shape[2]) \div (2 * d), d>>,
     graph |-> x.graph \o <<[op |-> "reshape"], [op |-> "split"]>>]

\* x * 2.0
MulScalar(x) == [shape |-> x.shape, graph |-> Append(x.graph, [op |-> "mul_scalar"])]

\* ln_sigma parameter of shape (1, d), broadcast to (b, d)
LnSigmaBroadcast(b, d) ==
    [shape |-> <<b, d>>,
     graph |-> <<[op |-> "parameter", shape |-> <<1, d>>], [op |-> "broadcast"]>>]

\* --------------------------------------------------------------- networks

\* Faulty variant of ExampleClassicControlVFunction.v: the hidden layers are as wide
\* as the input instead of 64 units.
ExampleClassicControlVFunction_v_InputWidth(s) ==
    LET h1 == F_relu(PF_affine(s, s.shape[2], "affine1"))
        h2 == F_relu(PF_affine(h1, s.shape[2], "affine2"))
    IN  PF_affine(h2, 1, "affine3")

\* ExampleClassicControlVFunction.v
ExampleClassicControlVFunction_v(s) ==
    LET h1 == F_relu(PF_affine(s, 64, "affine1"))
        h2 == F_relu(PF_affine(h1, 64, "affine2"))
    IN  PF_affine(h2, 1, "affine3")

\* ExampleMujocoVFunction.v
ExampleMujocoVFunction_v(s) ==
    LET h1 == F_tanh(PF_affine(s, 100, "linear1"))
        h2 == F_tanh(PF_affine(h1, 100, "linear2"))
    IN  PF_affine(h2, 1, "linear3")

\* ExampleClassicControlPolicy.pi
ExampleClassicControlPolicy_pi(action_dim, s) ==
    LET h1 == F_relu(PF_affine(s, 64, "affine1"))
        h2 == F_relu(PF_affine(h1, 64, "affine2"))
        h3 == PF_affine(h2, action_dim * 2, "affine3")
        half == F_reshape_split(h3, action_dim)
    IN  [mean |-> half, ln_var |-> MulScalar(half)]

\* ExampleMujocoPolicy.pi
ExampleMujocoPolicy_pi(action_dim, s) ==
    LET h1 == F_tanh(PF_affine(s, 100, "linear1"))
        h2 == F_tanh(PF_affine(h1, 100, "linear2"))
        mean == PF_affine(h2, action_dim, "linear3")
    IN  [mean |-> mean,
         ln_var |-> MulScalar(LnSigmaBroadcast(s.shape[1], action_dim))]

\* ExampleClassicDiscriminator.r
ExampleClassicDiscriminator_r(s_current, a_current, s_next) ==
    LET h0 == F_concatenate(s_current, a_current)
        h1 == F_tanh(PF_affine(h0, 64, "linear1"))
        h2 == F_tanh(PF_affine(h1, 64, "linear2"))
    IN  PF_affine(h2, 1, "linear3")

\* ExampleMujocoDiscriminator.r
ExampleMujocoDiscriminator_r(s_current, a_current, s_next) ==
    LET h0 == F_concatenate(s_current, a_current)
        h1 == F_tanh(PF_affine(h0, 100, "linear1"))
        h2 == F_tanh(PF_affine(h1, 100, "linear2"))
    IN  PF_affine(h2, 1, "linear3")

\* --------------------------------------------------------------- builders

\* ExamplePolicyBuilder.build_model
ExamplePolicyBuilder_build_model(mujoco, scope_name, envinfo, algconfig) ==
    IF mujoco
    THEN [class |-> "ExampleMujocoPolicy", scope_name |-> scope_name,
          action_dim |-> envinfo.action_dim]
    ELSE [class |-> "ExampleClassicControlPolicy", scope_name |-> scope_name,
          action_dim |-> envinfo.action_dim]

\* ExampleVFunctionBuilder.build_model
ExampleVFunctionBuilder_build_model(mujoco, scope_name, envinfo, algconfig) ==
    IF mujoco
    THEN [class |-> "ExampleMujocoVFunction", scope_name |-> scope_name]
    ELSE [class |-> "ExampleClassicControlVFunction", scope_name |-> scope_name]

\* ExampleRewardFunctionBuilder.build_model
ExampleRewardFunctionBuilder_build_model(mujoco, scope_name, envinfo, algconfig) ==
    IF mujoco
    THEN [class |-> "ExampleMujocoDiscriminator", scope_name |-> scope_name]
    ELSE [class |-> "ExampleClassicDiscriminator", scope_name |-> scope_name]

\* Faulty variant of ExampleVSolverBuilder.build_solver: the solver takes the
\* discriminator's learning rate.
ExampleVSolverBuilder_build_solver_WrongField(envinfo, algconfig) ==
    [type |-> "Adam", alpha |-> algconfig.discriminator_learning_rate]

\* ExampleVSolverBuilder.build_solver
ExampleVSolverBuilder_build_solver(envinfo, algconfig) ==
    [type |-> "Adam", alpha |-> algconfig.vf_learning_rate]

\* ExampleRewardFunctionSolverBuilder.build_solver
ExampleRewardFunctionSolverBuilder_build_solver(envinfo, algconfig) ==
    [type |-> "Adam", alpha |-> algconfig.discriminator_learning_rate]

\* Dispatch of model.pi / model.v / model.r on the model's class.
pi(model, s) ==
    IF model.class = "ExampleMujocoPolicy"
    THEN ExampleMujocoPolicy_pi(model.action_dim, s)
    ELSE ExampleClassicControlPolicy_pi(model.action_dim, s)

v(model, s) ==
    IF model.class = "ExampleMujocoVFunction"
    THEN ExampleMujocoVFunction_v(s)
    ELSE ExampleClassicControlVFunction_v(s)

r(model, s_current, a_current, s_next) ==
    IF model.class = "ExampleMujocoDiscriminator"
    THEN ExampleMujocoDiscriminator_r(s_current, a_current, s_next)
    ELSE ExampleClassicDiscriminator_r(s_current, a_current, s_next)

NoModel == [class |-> ""]

NoDistribution == [mean |-> NoVariable, ln_var |-> NoVariable]

\* The builder passed to GAIL(...) as keyword argument arg.
Supplied(arg) == { b \in gail.builders : b.arg = arg }

\* The builders are used once the GAIL object has been constructed from
\* them (lines 286-296) and before hooks are set on it.
BuildersInUse == pc = "set_hooks" /\ gail.id # 0

BuildPolicy ==
    /\ BuildersInUse
    /\ models.policy = NoModel
    /\ \E b \in Supplied("policy_builder") :
          models' = [models EXCEPT !.policy =
              ExamplePolicyBuilder_build_model(b.is_mujoco, "pi", env_info,
                                               algorithm_config)]
    /\ UNCHANGED <<pc, next_id, env_info, algorithm_config, is_mujoco, batch,
                   outputs, solvers>>
    /\ UNCHANGED scriptVars

BuildVFunction ==
    /\ BuildersInUse
    /\ models.v_function = NoModel
    /\ \E b \in Supplied("v_function_builder") :
          models' = [models EXCEPT !.v_function =
              ExampleVFunctionBuilder_build_model(b.is_mujoco, "v", env_info,
                                                  algorithm_config)]
    /\ UNCHANGED <<pc, next_id, env_info, algorithm_config, is_mujoco, batch,
                   outputs, solvers>>
    /\ UNCHANGED scriptVars

BuildRewardFunction ==
    /\ BuildersInUse
    /\ models.reward_function = NoModel
    /\ \E b \in Supplied("reward_function_builder") :
          models' = [models EXCEPT !.reward_function =
              ExampleRewardFunctionBuilder_build_model(b.is_mujoco, "discriminator",
                                                       env_info, algorithm_config)]
    /\ UNCHANGED <<pc, next_id, env_info, algorithm_config, is_mujoco, batch,
                   outputs, solvers>>
    /\ UNCHANGED scriptVars

\* S.Adam(...) constructs a new solver object on every call.
BuildVSolver ==
    /\ BuildersInUse
    /\ Len(solvers) < MaxSolvers
    /\ Supplied("v_solver_builder") # {}
    /\ LET s == ExampleVSolverBuilder_build_solver(env_info, algorithm_config)
       IN  solvers' = Append(solvers, [id |-> next_id, for |-> "v_function",
                                       type |-> s.type, alpha |-> s.alpha])
    /\ next_id' = next_id + 1
    /\ UNCHANGED <<pc, env_info, algorithm_config, is_mujoco, batch, models, outputs>>
    /\ UNCHANGED scriptVars

BuildRewardSolver ==
    /\ BuildersInUse
    /\ Len(solvers) < MaxSolvers
    /\ Supplied("reward_solver_builder") # {}
    /\ LET s == ExampleRewardFunctionSolverBuilder_build_solver(env_info,
                                                               algorithm_config)
       IN  solvers' = Append(solvers, [id |-> next_id, for |-> "reward_function",
                                       type |-> s.type, alpha |-> s.alpha])
    /\ next_id' = next_id + 1
    /\ UNCHANGED <<pc, env_info, algorithm_config, is_mujoco, batch, models, outputs>>
    /\ UNCHANGED scriptVars

\* Forward passes of the built models on inputs of the shapes env_info gives.
ForwardPolicy ==
    /\ models.policy # NoModel
    /\ outputs.policy = NoDistribution
    /\ outputs' = [outputs EXCEPT !.policy =
                      pi(models.policy, Input(batch, env_info.state_dim))]
    /\ UNCHANGED <<pc, next_id, env_info, algorithm_config, is_mujoco, batch,
                   models, solvers>>
    /\ UNCHANGED scriptVars

ForwardVFunction ==
    /\ models.v_function # NoModel
    /\ outputs.v_function = NoVariable
    /\ outputs' = [outputs EXCEPT !.v_function =
                      v(models.v_function, Input(batch, env_info.state_dim))]
    /\ UNCHANGED <<pc, next_id, env_info, algorithm_config, is_mujoco, batch,
                   models, solvers>>
    /\ UNCHANGED scriptVars

ForwardRewardFunction ==
    /\ models.reward_function # NoModel
    /\ outputs.reward_function = NoVariable
    /\ outputs' = [outputs EXCEPT !.reward_function =
                      r(models.reward_function,
                        Input(batch, env_info.state_dim),
                        Input(batch, env_info.action_dim),
                        Input(batch, env_info.state_dim))]
    /\ UNCHANGED <<pc, next_id, env_info, algorithm_config, is_mujoco, batch,
                   models, solvers>>
    /\ UNCHANGED scriptVars

\* --------------------------------------------------------- specifications

BuildInit ==
    /\ models = [policy |-> NoModel, v_function |-> NoModel,
                 reward_function |-> NoModel]
    /\ outputs = [policy |-> NoDistribution, v_function |-> NoVariable,
                  reward_function |-> NoVariable]
    /\ solvers = <<>>

\* train() as written: is_mujoco = False (line 239).  The builders are not
\* applied in Spec, so their inputs are left at fixed values.
Init ==
    /\ pc = "build_train_env"
    /\ next_id = 1
    /\ ScriptInit
    /\ BuildInit
    /\ is_mujoco = FALSE
    /\ env_info = [state_dim |-> 1, action_dim |-> 1]
    /\ algorithm_config = [vf_learning_rate |-> 1, discriminator_learning_rate |-> 1]
    /\ batch = 1

Next ==
    \/ BuildTrainEnv
    \/ LoadExpert
    \/ BuildEvalEnv
    \/ MakeEvaluationHook
    \/ MakeIterationNumHook
    \/ MakeSaveSnapshotHook
    \/ MakeConfig
    \/ MakeGail
    \/ SetHooks
    \/ CallTrain
    \/ Iterate

Spec == Init /\ [][Next]_vars

\* The script up to the construction of GAIL, for either value of is_mujoco
\* (line 239 and its commented alternative, line 257), followed by the use
\* of the supplied builders on inputs drawn from bounded sets.
InitBuild ==
    /\ pc = "build_train_env"
    /\ next_id = 1
    /\ ScriptInit
    /\ BuildInit
    /\ is_mujoco \in BOOLEAN
    /\ env_info \in [state_dim : 1..MaxDim, action_dim : 1..MaxDim]
    /\ algorithm_config \in [vf_learning_rate : 1..MaxLearningRate,
                             discriminator_learning_rate : 1..MaxLearningRate]
    /\ batch \in 1..MaxBatch

NextBuild ==
    \/ BuildTrainEnv
    \/ LoadExpert
    \/ BuildEvalEnv
    \/ MakeEvaluationHook
    \/ MakeIterationNumHook
    \/ MakeSaveSnapshotHook
    \/ MakeConfig
    \/ MakeGail
    \/ BuildPolicy
    \/ BuildVFunction
    \/ BuildRewardFunction
    \/ BuildVSolver
    \/ BuildRewardSolver
    \/ ForwardPolicy
    \/ ForwardVFunction
    \/ ForwardRewardFunction

SpecBuild == InitBuild /\ [][NextBuild]_vars

\* ------------------------------------------------------------------ claims

Range(q) == { q[i] : i \in 1..Len(q) }

\* The positions of stage e in the log.
Positions(e) == { i \in 1..Len(log) : log[i] = e }

\* Stage a was executed, and before every execution of stage b.
Precedes(a, b) ==
    /\ Positions(a) # {}
    /\ \A i \in Positions(a), j \in Positions(b) : i < j

IsPrefix(p, q) == Len(p) <= Len(q) /\ \A i \in 1..Len(p) : p[i] = q[i]

NoStageTwice == \A i, j \in 1..Len(log) : log[i] = log[j] => i = j

\* C1 as stated: the stages of train() run each at most once and in the
\* order (1) both environments, (2) the expert dataset, (4) the config and
\* the three hooks, (5) gail.train; the expert dataset is never loaded
\* before the evaluation environment exists, and gail.set_hooks precedes
\* gail.train.
C1_EnvsThenDatasetThenHooksThenTrain ==
    /\ NoStageTwice
    /\ "load_expert" \in Range(log) =>
          /\ Precedes("build_train_env", "load_expert")
          /\ Precedes("build_eval_env", "load_expert")
    /\ expert_buffer # 0 => eval_env.id # 0
    /\ \A e \in {"evaluation_hook", "iteration_num_hook", "save_snapshot_hook",
                 "config"} :
          e \in Range(log) => Precedes("load_expert", e)
    /\ "train" \in Range(log) =>
          \A e \in {"evaluation_hook", "iteration_num_hook",
                    "save_snapshot_hook", "config", "set_hooks"} :
              Precedes(e, "train")

\* C1 amended: at every point of a call of train() the stages executed so
\* far are, each once, an initial part of: training environment, expert
\* dataset, evaluation environment, evaluation hook, iteration-number hook,
\* snapshot hook, GAILConfig, GAIL, gail.set_hooks, gail.train.  The expert
\* dataset is loaded while the evaluation environment does not exist yet,
\* and gail.train is invoked, and iterates, only after gail.set_hooks has
\* set the three hooks.
C1_StagesInProgramOrder ==
    /\ IsPrefix(log, <<"build_train_env", "load_expert", "build_eval_env",
                       "evaluation_hook", "iteration_num_hook",
                       "save_snapshot_hook", "config", "gail", "set_hooks",
                       "train">>)
    /\ expert_buffer # 0 /\ "build_eval_env" \notin Range(log) => eval_env.id = 0
    /\ "build_eval_env" \in Range(log) => expert_buffer # 0 /\ eval_env.id # 0
    /\ train_call # NoCall \/ iteration_num > 0 =>
          /\ Len(log) = 10
          /\ Precedes("set_hooks", "train")
          /\ gail.hooks = <<evaluation_hook, iteration_num_hook,
                            save_snapshot_hook>>
          /\ \A i \in 1..3 : gail.hooks[i].id # 0
          /\ config.id # 0 /\ gail.config = config.id

\* C1 witness: gail.train has been invoked and has iterated.
C1_TrainingRuns == pc = "training" /\ iteration_num > 0 /\ Len(log) = 10

\* C2 as stated: with the settings of train(), for every iteration i in
\* 1..total_iterations an evaluation on eval_env runs at i if and only if i
\* is a multiple of 5000.
C2_EvaluationEvery5000 ==
    iteration_num \in 1..total_iterations =>
        ( (/\ "evaluation" \in ran
           /\ [iteration |-> iteration_num, env |-> eval_env.id] \in evaluations)
          <=> iteration_num % 5000 = 0 )

\* C3 as stated: with the settings of train(), for every iteration i in
\* 1..total_iterations a snapshot is written to outdir at i if and only if
\* i is a multiple of 5000.
C3_SnapshotEvery5000 ==
    iteration_num \in 1..total_iterations =>
        ( (/\ "save_snapshot" \in ran
           /\ [iteration |-> iteration_num, outdir |-> outdir] \in snapshots)
          <=> iteration_num % 5000 = 0 )

\* C4: eval_env is passed to the EvaluationHook and to nothing else; GAIL and
\* gail.train are given the same train_env object; training iterations
\* interact with train_env only and evaluations run on eval_env only;
\* train_env is never wrapped in ScreenRenderEnv while eval_env always is
\* (build_classic_control_env applies NumpyFloat32Env always and
\* ScreenRenderEnv, outermost, only when render is True).
C4_EvalEnvOnlyForEvaluation ==
    /\ train_env.id # 0 /\ eval_env.id # 0 => train_env.id # eval_env.id
    /\ gail.id # 0 => gail.env = train_env.id /\ gail.env # eval_env.id
    /\ train_call # NoCall =>
          /\ train_call.env = train_env.id
          /\ train_call.env = gail.env
          /\ train_call.env # eval_env.id
    /\ evaluation_hook.id # 0 =>
          evaluation_hook.env = eval_env.id /\ eval_env.id # 0
    /\ iteration_num_hook.env = 0
    /\ save_snapshot_hook.env = 0
    /\ iteration_num > 0 => stepped_env = train_env.id
    /\ \A e \in evaluations : e.env = eval_env.id /\ e.env # train_env.id
    /\ train_env.id # 0 =>
          /\ "ScreenRenderEnv" \notin Range(train_env.wrappers)
          /\ "NumpyFloat32Env" \in Range(train_env.wrappers)
    /\ eval_env.id # 0 =>
          /\ eval_env.wrappers[Len(eval_env.wrappers)] = "ScreenRenderEnv"
          /\ "NumpyFloat32Env" \in Range(eval_env.wrappers)
    /\ \A render \in BOOLEAN :
          LET w == build_classic_control_env(env_name, render).wrappers
          IN  /\ w[1] = "NumpyFloat32Env"
              /\ ("ScreenRenderEnv" \in Range(w)) <=> render
              /\ render => w[Len(w)] = "ScreenRenderEnv"

\* C4 witness: training has iterated on train_env and an evaluation has run
\* on eval_env.
C4_TrainedAndEvaluated ==
    /\ iteration_num > 0
    /\ stepped_env = train_env.id
    /\ evaluations # {}
    /\ "evaluation" \in ran

\* The affine layers of graph g that are followed by an activation.
HiddenLayers(g) ==
    { i \in 1..Len(g) : /\ g[i].op = "affine"
                        /\ i < Len(g)
                        /\ g[i + 1].op \in {"relu", "tanh"} }

Activations(g) == { i \in 1..Len(g) : g[i].op \in {"relu", "tanh"} }

\* Graph g has exactly two hidden layers, of width w and activation act.
TwoHiddenLayers(g, w, act) ==
    /\ Cardinality(HiddenLayers(g)) = 2
    /\ \A i \in HiddenLayers(g) : g[i].n_outmaps = w /\ g[i + 1].op = act
    /\ \A i \in Activations(g) : i - 1 \in HiddenLayers(g)

\* Variable x ends in a single-unit affine layer without activation and has
\* shape (batch, 1).
SingleUnitOutput(x) ==
    /\ x.graph[Len(x.graph)].op = "affine"
    /\ x.graph[Len(x.graph)].n_outmaps = 1
    /\ x.shape = <<batch, 1>>

\* C5: whatever env_info, algorithm_config and the input dimension are,
\* every network has exactly two hidden layers, of width 64 in the
\* classic-control models (ReLU in policy and V function, tanh in the
\* discriminator) and of width 100 with tanh in the Mujoco models; every V
\* function and discriminator ends in a single-unit affine layer with no
\* activation, so its output has shape (batch, 1).
C5_FixedHiddenLayers ==
    LET width == IF is_mujoco THEN 100 ELSE 64
        act   == IF is_mujoco THEN "tanh" ELSE "relu"
    IN  /\ outputs.policy # NoDistribution =>
              TwoHiddenLayers(outputs.policy.mean.graph, width, act)
        /\ outputs.v_function # NoVariable =>
              /\ TwoHiddenLayers(outputs.v_function.graph, width, act)
              /\ SingleUnitOutput(outputs.v_function)
        /\ outputs.reward_function # NoVariable =>
              /\ TwoHiddenLayers(outputs.reward_function.graph, width, "tanh")
              /\ SingleUnitOutput(outputs.reward_function)

\* C5 witness: the three networks were built and evaluated on a batch of
\* more than one input whose dimensions differ from one another.
C5_AllNetworksEvaluated ==
    /\ outputs.policy # NoDistribution
    /\ outputs.v_function # NoVariable
    /\ outputs.reward_function # NoVariable
    /\ batch > 1
    /\ env_info.state_dim # env_info.action_dim

\* The solver builders GAIL was given for network n.
SolverBuildersFor(n) ==
    { b \in gail.builders : b.kind = "SolverBuilder" /\ b.network = n }

\* Every solver built is an Adam solver with the learning rate of its own
\* network's config field, and no two solvers are the same object.
SolversUseOwnField ==
    /\ \A i \in 1..Len(solvers) :
          /\ solvers[i].type = "Adam"
          /\ solvers[i].for = "v_function" =>
                solvers[i].alpha = algorithm_config.vf_learning_rate
          /\ solvers[i].for = "reward_function" =>
                solvers[i].alpha = algorithm_config.discriminator_learning_rate
    /\ \A i, j \in 1..Len(solvers) : solvers[i].id = solvers[j].id => i = j
    /\ \A i \in 1..Len(solvers) :
          solvers[i].id \notin {train_env.id, eval_env.id, expert_buffer,
                                evaluation_hook.id, iteration_num_hook.id,
                                save_snapshot_hook.id, config.id, gail.id}

\* C6 as stated: a solver builder is supplied for each of the three networks
\* (policy, value function, discriminator), and each returns a fresh Adam
\* solver whose learning rate is the config field of its own network.
C6_SolverBuilderForEachNetwork ==
    /\ gail.id # 0 =>
          \A n \in {"policy", "v_function", "reward_function"} :
              SolverBuildersFor(n) # {}
    /\ SolversUseOwnField

\* C6 amended: a solver builder is supplied for the value function and for
\* the discriminator, one each, and none for the policy; each returns a
\* fresh Adam solver whose learning rate is the config field of its own
\* network (vf_learning_rate, discriminator_learning_rate), never the
\* other's field.
C6_SolverBuildersForVAndReward ==
    /\ gail.id # 0 =>
          /\ SolverBuildersFor("policy") = {}
          /\ { b.class : b \in SolverBuildersFor("v_function") } =
                {"ExampleVSolverBuilder"}
          /\ { b.class : b \in SolverBuildersFor("reward_function") } =
                {"ExampleRewardFunctionSolverBuilder"}
    /\ SolversUseOwnField

\* C6 witness: both solver builders were applied to a config whose two
\* learning rates differ.
C6_BothSolversBuilt ==
    /\ \E i \in 1..Len(solvers) : solvers[i].for = "v_function"
    /\ \E i \in 1..Len(solvers) : solvers[i].for = "reward_function"
    /\ algorithm_config.vf_learning_rate #
          algorithm_config.discriminator_learning_rate

====
